---- MODULE Spec2Model ----
(***************************************************************************)
(* A model of frontend/script.js, current revision (lines 437-995; lines   *)
(* 1-436 of the file hold the superseded earlier revision of the same      *)
(* listener).  The page is one single-threaded event loop: every action    *)
(* below is one run-to-completion step of it, a user event, a timer tick   *)
(* or the continuation of an awaited network call.                         *)
(*                                                                         *)
(* Texts that the program compares or parses (column names, query, CSV)    *)
(* are sequences of one-character strings; texts it only displays (status  *)
(* line, badge labels) are sequences of string pieces.                     *)
(***************************************************************************)
EXTENDS Integers, Sequences, FiniteSets, TLC

----------------------------------------------------------------------------
(* Bounds of the model *)

\* handleSearch passes validation at most this many times
MaxSubmits == 2
\* poll requests issued in total (the immediate one and the timer's)
MaxPolls == 2
\* columns added through the '+' button
MaxAdded == 1
\* poll requests issued in total where the item statuses are followed
MaxSnapshots == 3
\* where the schema is edited: the highest number the '+' button starts from,
\* rename editors closed, and type changes
MaxSchemaAdds == 2
MaxRenames == 1
MaxRetypes == 1
MaxCsvRows == 2

----------------------------------------------------------------------------
(* Texts *)

\* String.prototype.trim removes these from both ends
Whitespace == {" ", "\t", "\n", "\r"}

RECURSIVE TrimLeft(_)
TrimLeft(t) ==
    IF t # <<>> /\ Head(t) \in Whitespace THEN TrimLeft(Tail(t)) ELSE t

RECURSIVE TrimRight(_)
TrimRight(t) ==
    IF t # <<>> /\ t[Len(t)] \in Whitespace
    THEN TrimRight(SubSeq(t, 1, Len(t) - 1))
    ELSE t

Trim(t) == TrimRight(TrimLeft(t))

Digit(d) == CASE d = 0 -> "0" [] d = 1 -> "1" [] d = 2 -> "2" [] d = 3 -> "3"
              [] d = 4 -> "4" [] d = 5 -> "5" [] d = 6 -> "6" [] d = 7 -> "7"
              [] d = 8 -> "8" [] d = 9 -> "9"

\* the decimal text of a natural number, as a template literal prints it
RECURSIVE ToDecimal(_)
ToDecimal(n) ==
    IF n < 10 THEN <<Digit(n)>> ELSE ToDecimal(n \div 10) \o <<Digit(n % 10)>>

USPTO_ID == <<"U", "S", "P", "T", "O", "_", "I", "D">>
Table_No == <<"T", "a", "b", "l", "e", "_", "N", "o">>
TEXT == "TEXT"
NUMERIC == "NUMERIC"

\* `Column ${i}`
ColumnName(i) == <<"C", "o", "l", "u", "m", "n", " ">> \o ToDecimal(i)

UpperCaseLetters ==
    <<"A", "B", "C", "D", "E", "F", "G", "H", "I", "J", "K", "L", "M",
      "N", "O", "P", "Q", "R", "S", "T", "U", "V", "W", "X", "Y", "Z">>
LowerCaseLetters ==
    <<"a", "b", "c", "d", "e", "f", "g", "h", "i", "j", "k", "l", "m",
      "n", "o", "p", "q", "r", "s", "t", "u", "v", "w", "x", "y", "z">>

\* String.prototype.toLowerCase, on the letters A-Z
toLowerCase(t) ==
    [i \in 1..Len(t) |->
        IF \E k \in 1..26 : UpperCaseLetters[k] = t[i]
        THEN LowerCaseLetters[CHOOSE k \in 1..26 : UpperCaseLetters[k] = t[i]]
        ELSE t[i]]

----------------------------------------------------------------------------
(* JavaScript objects with string keys: a sequence of <<key, value>> pairs  *)
(* in the order Object.keys lists them: the keys that are array indices in *)
(* ascending numeric order first, then the other keys in insertion order.  *)

DigitChars == {"0", "1", "2", "3", "4", "5", "6", "7", "8", "9"}

DigitValue(c) == CHOOSE d \in 0..9 : Digit(d) = c

\* 2^32 - 2 is the largest array index
MaxArrayIndexText == <<"4", "2", "9", "4", "9", "6", "7", "2", "9", "4">>

\* a and b are digit texts without leading zeros: a < b as numbers
DecimalLess(a, b) ==
    \/ Len(a) < Len(b)
    \/ /\ Len(a) = Len(b)
       /\ \E i \in 1..Len(a) :
             /\ DigitValue(a[i]) < DigitValue(b[i])
             /\ \A k \in 1..(i - 1) : a[k] = b[k]

\* k is the canonical decimal text of an array index
IsArrayIndex(k) ==
    /\ k # <<>>
    /\ \A i \in 1..Len(k) : k[i] \in DigitChars
    /\ Len(k) = 1 \/ k[1] # "0"
    /\ k = MaxArrayIndexText \/ DecimalLess(k, MaxArrayIndexText)

ObjKeys(o) == [i \in 1..Len(o) |-> o[i][1]]

ObjHas(o, k) == \E i \in 1..Len(o) : o[i][1] = k

ObjGet(o, k) == o[CHOOSE i \in 1..Len(o) : o[i][1] = k][2]

\* o[k] = v : overwrite in place, or add a new key at its place in key order
ObjSet(o, k, v) ==
    IF ObjHas(o, k)
    THEN [i \in 1..Len(o) |-> IF o[i][1] = k THEN <<k, v>> ELSE o[i]]
    ELSE IF IsArrayIndex(k)
         THEN LET n == Cardinality({i \in 1..Len(o) :
                                      IsArrayIndex(o[i][1]) /\ DecimalLess(o[i][1], k)})
              IN  SubSeq(o, 1, n) \o <<<<k, v>>>> \o SubSeq(o, n + 1, Len(o))
         ELSE Append(o, <<k, v>>)

----------------------------------------------------------------------------
(* The CSV decoder *)

\* String.prototype.split(sep) for a one-character separator
RECURSIVE Split(_, _)
Split(t, sep) ==
    IF \E i \in 1..Len(t) : t[i] = sep
    THEN LET i == CHOOSE j \in 1..Len(t) :
                     t[j] = sep /\ \A k \in 1..(j - 1) : t[k] # sep
         IN  <<SubSeq(t, 1, i - 1)>> \o Split(SubSeq(t, i + 1, Len(t)), sep)
    ELSE <<t>>

\* the scanner with a doubled quote read as one literal quote in both states
scanStepEscapesInBothStates(line, st) ==
    LET char == line[st.i]
        nextIsQuote == st.i + 1 <= Len(line) /\ line[st.i + 1] = "\""
    IN  IF char = "\""
        THEN IF nextIsQuote
             THEN [st EXCEPT !.i = @ + 2, !.current = Append(@, "\"")]
             ELSE [st EXCEPT !.i = @ + 1, !.inQuotes = ~@]
        ELSE IF char = "," /\ ~st.inQuotes
             THEN [st EXCEPT !.i = @ + 1,
                             !.values = Append(@, Trim(st.current)),
                             !.current = <<>>]
             ELSE [st EXCEPT !.i = @ + 1, !.current = Append(@, char)]

\* the scanner with a comma that ends the field also inside quotes
scanStepSplitsInsideQuotes(line, st) ==
    LET char == line[st.i]
        nextIsQuote == st.i + 1 <= Len(line) /\ line[st.i + 1] = "\""
    IN  IF char = "\""
        THEN IF st.inQuotes /\ nextIsQuote
             THEN [st EXCEPT !.i = @ + 2, !.current = Append(@, "\"")]
             ELSE [st EXCEPT !.i = @ + 1, !.inQuotes = ~@]
        ELSE IF char = ","
             THEN [st EXCEPT !.i = @ + 1,
                             !.values = Append(@, Trim(st.current)),
                             !.current = <<>>]
             ELSE [st EXCEPT !.i = @ + 1, !.current = Append(@, char)]

\* one iteration of the for loop of parseCSVLine; st holds the index i and the
\* locals values, current and inQuotes
scanStep(line, st) ==
    LET char == line[st.i]
        nextIsQuote == st.i + 1 <= Len(line) /\ line[st.i + 1] = "\""
    IN  IF char = "\""
        THEN IF st.inQuotes /\ nextIsQuote
             THEN [st EXCEPT !.i = @ + 2, !.current = Append(@, "\"")]
             ELSE [st EXCEPT !.i = @ + 1, !.inQuotes = ~@]
        ELSE IF char = "," /\ ~st.inQuotes
             THEN [st EXCEPT !.i = @ + 1,
                             !.values = Append(@, Trim(st.current)),
                             !.current = <<>>]
             ELSE [st EXCEPT !.i = @ + 1, !.current = Append(@, char)]

\* the for loop of parseCSVLine from index i on, with its three locals
RECURSIVE parseCSVLineFrom(_, _, _, _, _)
parseCSVLineFrom(line, i, values, current, inQuotes) ==
    IF i > Len(line)
    THEN Append(values, Trim(current))
    ELSE LET st == scanStep(line, [i |-> i, values |-> values, current |-> current,
                                   inQuotes |-> inQuotes])
         IN  parseCSVLineFrom(line, st.i, st.values, st.current, st.inQuotes)

\* the states the loop of parseCSVLine goes through on line, the first before
\* the first character and the last past the end
RECURSIVE ScanStatesFrom(_, _)
ScanStatesFrom(line, st) ==
    IF st.i > Len(line)
    THEN <<st>>
    ELSE <<st>> \o ScanStatesFrom(line, scanStep(line, st))

ScanStates(line) ==
    ScanStatesFrom(line, [i |-> 1, values |-> <<>>, current |-> <<>>, inQuotes |-> FALSE])

parseCSVLine(line) == parseCSVLineFrom(line, 1, <<>>, <<>>, FALSE)

\* the row loop that sets only the fields the record has
parseCSVRowSkipsMissing(header, values, j, row) ==
    LET set(k, acc) == IF k <= Len(values) THEN ObjSet(acc, header[k], values[k]) ELSE acc
        RECURSIVE from(_, _)
        from(k, acc) == IF k > Len(header) THEN acc ELSE from(k + 1, set(k, acc))
    IN  from(j, row)

\* row[header[j]] = values[j] || '' for j = from .. header.length
RECURSIVE parseCSVRow(_, _, _, _)
parseCSVRow(header, values, j, row) ==
    IF j > Len(header)
    THEN row
    ELSE parseCSVRow(header, values, j + 1,
                     ObjSet(row, header[j],
                            IF j <= Len(values) THEN values[j] ELSE <<>>))

\* the data loop without the test that skips blank lines
parseCSVRowsKeepsBlankLines(lines, header, i, data) ==
    LET RECURSIVE from(_, _)
        from(k, acc) ==
            IF k > Len(lines) THEN acc
            ELSE from(k + 1,
                      Append(acc, parseCSVRow(header, parseCSVLine(lines[k]), 1, <<>>)))
    IN  from(i, data)

\* the data loop of parseCSV from line i on
RECURSIVE parseCSVRows(_, _, _, _)
parseCSVRows(lines, header, i, data) ==
    IF i > Len(lines)
    THEN data
    ELSE IF Trim(lines[i]) = <<>>
         THEN parseCSVRows(lines, header, i + 1, data)
         ELSE parseCSVRows(lines, header, i + 1,
                  Append(data, parseCSVRow(header, parseCSVLine(lines[i]), 1, <<>>)))

parseCSV(text) ==
    IF Trim(text) = <<>>
    THEN <<>>
    ELSE LET lines == Split(Trim(text), "\n")
         IN  parseCSVRows(lines, parseCSVLine(lines[1]), 2, <<>>)

----------------------------------------------------------------------------
(* The table body: rows of cells *)

\* '.'.repeat(n) after "Loading"
LoadingText(n) == <<"Loading">> \o [i \in 1..n |-> "."]

\* a td without data-column-name
PlainCell(text) == [tag |-> <<>>, cls |-> "", badge |-> "", text |-> text]

\* the td initializeProgressTable builds for a user column
LoadingCell(name) ==
    [tag |-> <<name>>, cls |-> "status-cell", badge |-> "loading",
     text |-> LoadingText(3)]

BadgeCell(cell, badge, label) ==
    [cell EXCEPT !.cls = "status-cell", !.badge = badge, !.text = <<label>>]

\* number of placeholder rows renderBody paints
numRows == 10

columnNames(s) == [i \in 1..Len(s.columns) |-> s.columns[i].name]

\* rowData[colName] || ''
FieldOrEmpty(rowData, colName) ==
    IF ObjHas(rowData, colName) THEN ObjGet(rowData, colName) ELSE <<>>

renderBody(s, data) ==
    LET names == columnNames(s)
        finalRow(rowData) ==
            [id |-> "",
             cells |-> [j \in 1..Len(names) |-> PlainCell(FieldOrEmpty(rowData, names[j]))]
                       \o <<PlainCell(<<>>)>>]
        emptyRow ==
            [id |-> "",
             cells |-> [j \in 1..Len(names) |-> PlainCell(<<"...">>)]
                       \o <<PlainCell(<<>>)>>]
    IN  [s EXCEPT !.tableBody =
            IF Len(data) > 0
            THEN [i \in 1..Len(data) |-> finalRow(data[i])]
            ELSE IF s.currentTaskId = 0
                 THEN [i \in 1..numRows |-> emptyRow]
                 ELSE <<>>]

\* render(): renderHeaders shows s.columns as they are; renderBody(extractionData)
render(s) == renderBody(s, s.extractionData)

\* columns.filter(c => c.name !== 'USPTO_ID' && c.name !== 'Table_No')
userColumns(s) == SelectSeq(s.columns, LAMBDA c : c.name # USPTO_ID /\ c.name # Table_No)

\* the comparator of initializeProgressTable: negative when a sorts before b
TableBefore(a, b) ==
    \/ a.uspto_id < b.uspto_id
    \/ a.uspto_id = b.uspto_id /\ a.table_no < b.table_no

\* Array.prototype.sort with that comparator (stable)
RECURSIVE SortTables(_)
SortTables(ts) ==
    IF ts = <<>>
    THEN <<>>
    ELSE LET rest == SortTables(Tail(ts))
             t == Head(ts)
             \* t, earlier in the input, goes after the elements that sort
             \* strictly before it and before those that compare equal
             k == Cardinality({i \in 1..Len(rest) : TableBefore(rest[i], t)})
         IN  SubSeq(rest, 1, k) \o <<t>> \o SubSeq(rest, k + 1, Len(rest))

initializeProgressTable(s, tables) ==
    LET cols == userColumns(s)
        sortedTables == SortTables(tables)
        row(table) ==
            [id |-> table.uid,
             cells |-> <<PlainCell(ToDecimal(table.uspto_id)),
                         PlainCell(ToDecimal(table.table_no))>>
                       \o [j \in 1..Len(cols) |-> LoadingCell(cols[j].name)]
                       \o <<PlainCell(<<>>)>>]
    IN  [s EXCEPT !.tableBody = [i \in 1..Len(sortedTables) |-> row(sortedTables[i])]]

\* tableProgressData[uid]?.status ; "undefined" when the uid is not a key
StoredStatus(s, uid) ==
    IF \E i \in 1..Len(s.tableProgressData) : s.tableProgressData[i].uid = uid
    THEN s.tableProgressData[CHOOSE i \in 1..Len(s.tableProgressData) :
                                 s.tableProgressData[i].uid = uid].status
    ELSE "undefined"

\* the switch of updateProgressTable on one cell
RepaintCell(cell, status) ==
    CASE status = "completed_relevant"   -> BadgeCell(cell, "match", "Match")
      [] status = "completed_irrelevant" -> BadgeCell(cell, "miss", "Miss")
      [] status = "error"                -> BadgeCell(cell, "miss", "Miss")
      [] OTHER                           -> cell

\* row.querySelector(`td[data-column-name="${name}"]`) and the switch, per user column
RepaintRow(row, cols, status) ==
    LET first(name) ==
            IF \E j \in 1..Len(row.cells) : row.cells[j].tag = <<name>>
            THEN CHOOSE j \in 1..Len(row.cells) :
                     /\ row.cells[j].tag = <<name>>
                     /\ \A k \in 1..(j - 1) : row.cells[k].tag # <<name>>
            ELSE 0
        hit == {first(cols[c].name) : c \in 1..Len(cols)}
    IN  [row EXCEPT !.cells =
            [j \in 1..Len(row.cells) |->
                IF j \in hit THEN RepaintCell(row.cells[j], status) ELSE row.cells[j]]]

\* the forEach without the comparison with the stored status: every row that
\* exists is repainted
RECURSIVE updateProgressRowsRepaintsAll(_, _, _, _)
updateProgressRowsRepaintsAll(s, tables, i, body) ==
    IF i > Len(tables)
    THEN body
    ELSE LET table == tables[i]
             found == \E q \in 1..Len(body) : body[q].id = table.uid
             r == CHOOSE q \in 1..Len(body) :
                      body[q].id = table.uid /\ \A k \in 1..(q - 1) : body[k].id # table.uid
         IN  IF found
             THEN updateProgressRowsRepaintsAll(s, tables, i + 1,
                      [body EXCEPT ![r] = RepaintRow(body[r], userColumns(s), table.status)])
             ELSE updateProgressRowsRepaintsAll(s, tables, i + 1, body)

\* the forEach of updateProgressTable from table i on
RECURSIVE updateProgressRows(_, _, _, _)
updateProgressRows(s, tables, i, body) ==
    IF i > Len(tables)
    THEN body
    ELSE LET table == tables[i]
             found == \E q \in 1..Len(body) : body[q].id = table.uid
             r == CHOOSE q \in 1..Len(body) :
                      body[q].id = table.uid /\ \A k \in 1..(q - 1) : body[k].id # table.uid
         IN  IF found /\ StoredStatus(s, table.uid) # table.status
             THEN updateProgressRows(s, tables, i + 1,
                      [body EXCEPT ![r] = RepaintRow(body[r], userColumns(s), table.status)])
             ELSE updateProgressRows(s, tables, i + 1, body)

updateProgressTable(s, tables) ==
    [s EXCEPT !.tableBody = updateProgressRows(s, tables, 1, s.tableBody),
              !.tableProgressData = tables]

\* row.querySelector throws a SyntaxError when the selector
\* td[data-column-name="<name>"] is not valid: a double quote in the name
\* ends the quoted value early
SelectorIsValid(name) == \A i \in 1..Len(name) : name[i] # "\""

\* the first user column whose selector is not valid, 0 when all are valid
FirstInvalidSelector(cols) ==
    IF \E c \in 1..Len(cols) : ~SelectorIsValid(cols[c].name)
    THEN CHOOSE c \in 1..Len(cols) :
             /\ ~SelectorIsValid(cols[c].name)
             /\ \A k \in 1..(c - 1) : SelectorIsValid(cols[k].name)
    ELSE 0

\* the first item of tables that has a row and whose status differs from the
\* stored one, 0 when there is none: the first whose cells are looked up
FirstRepainted(s, tables) ==
    LET changed(i) == /\ \E q \in 1..Len(s.tableBody) : s.tableBody[q].id = tables[i].uid
                      /\ StoredStatus(s, tables[i].uid) # tables[i].status
    IN  IF \E i \in 1..Len(tables) : changed(i)
        THEN CHOOSE i \in 1..Len(tables) : changed(i) /\ \A k \in 1..(i - 1) : ~changed(k)
        ELSE 0

\* updateProgressTable ends in an exception
updateProgressTableThrows(s, tables) ==
    FirstInvalidSelector(userColumns(s)) # 0 /\ FirstRepainted(s, tables) # 0

\* the page when that exception leaves updateProgressTable: the cells of the
\* columns before the invalid one are repainted in the first row looked up,
\* and the stored map is as it was
updateProgressTableThrown(s, tables) ==
    LET table == tables[FirstRepainted(s, tables)]
        cols == userColumns(s)
        r == CHOOSE q \in 1..Len(s.tableBody) :
                 /\ s.tableBody[q].id = table.uid
                 /\ \A k \in 1..(q - 1) : s.tableBody[k].id # table.uid
    IN  [s EXCEPT !.tableBody[r] =
            RepaintRow(@, SubSeq(cols, 1, FirstInvalidSelector(cols) - 1), table.status)]

----------------------------------------------------------------------------
(* The server's vocabulary, as far as the page reads it *)

\* task ids are positive numbers; 0 stands for null / undefined (both falsy)
TaskIds == 1..MaxSubmits

FailurePrefix == "U+274C "
SuccessPrefix == "U+2705 "

\* a text that is shown only when it is truthy
Shown(m) == IF m = "" THEN <<>> ELSE <<m>>

\* the inventory's keys in the order the JSON object lists them, and the
\* identifier columns of each item
KeyOrder == <<"T2", "T1">>
ItemOf(uid, status) ==
    [uid |-> uid, uspto_id |-> 7, table_no |-> IF uid = "T1" THEN 1 ELSE 2,
     status |-> status]

ItemStatuses == {"processing", "completed_relevant"}

\* tables objects: no item, or every item of the inventory with some status
Inventories(statuses) ==
    {<<>>} \cup {<<ItemOf(KeyOrder[1], a), ItemOf(KeyOrder[2], b)>> :
                    a \in statuses, b \in statuses}

\* what the user may have typed into the search box
Queries == {<<>>, <<" ">>, <<"q", " ">>}

\* how POST /api/extract may end
SubmitOutcomes ==
    {[kind |-> k, detail |-> "", tables |-> <<>>, status |-> "", hasId |-> FALSE,
      message |-> ""] : k \in {"reject", "notok_badjson", "ok_badjson"}}
    \cup {[kind |-> "notok", detail |-> d, tables |-> <<>>, status |-> "",
           hasId |-> FALSE, message |-> ""] : d \in {"", "No patents loaded"}}
    \cup {[kind |-> "ok", detail |-> "", tables |-> t, status |-> st, hasId |-> h,
           message |-> m] :
             t \in Inventories({"pending"}), st \in {"processing", "completed"},
             h \in BOOLEAN, m \in {"", "Nothing to extract"}}

\* how GET /api/progress/{id} may end
PollOutcomes ==
    {[kind |-> "fail", status |-> "", message |-> "", tables |-> <<>>]}
    \cup {[kind |-> "json", status |-> st, message |-> "", tables |-> t] :
             st \in {"processing", "completed", "error", "not_found"},
             t \in Inventories(ItemStatuses)}
    \cup {[kind |-> "json", status |-> "error", message |-> "LLM quota exceeded",
           tables |-> t] : t \in Inventories(ItemStatuses)}

\* every status an item may carry
AllItemStatuses ==
    {"pending", "processing", "completed_relevant", "completed_irrelevant", "error"}

\* tables objects with any status per item: no item, T2 alone, or T2 and T1
ProgressInventories ==
    {<<>>}
    \cup {<<ItemOf("T2", a)>> : a \in AllItemStatuses}
    \cup {<<ItemOf("T2", a), ItemOf("T1", b)>> :
             a \in AllItemStatuses, b \in AllItemStatuses}

\* a submission that starts a task
ProgressSubmitOutcomes ==
    {[kind |-> "ok", detail |-> "", tables |-> t, status |-> "processing",
      hasId |-> TRUE, message |-> ""] : t \in Inventories({"pending"}) \ {<<>>}}

\* snapshots of a running task
ProgressPollOutcomes ==
    {[kind |-> "json", status |-> "processing", message |-> "", tables |-> t] :
        t \in ProgressInventories}

Line(fields) == fields \o <<"\n">>

\* fields joined by commas
RECURSIVE JoinFields(_)
JoinFields(fields) ==
    IF fields = <<>> THEN <<>>
    ELSE IF Len(fields) = 1 THEN fields[1]
    ELSE fields[1] \o <<",">> \o JoinFields(Tail(fields))

\* the artifact of a server that writes the requested column names as the
\* header, in the order of the request, and one data record
EchoArtifact(names) ==
    Line(JoinFields(names))
    \o Line(JoinFields([i \in 1..Len(names) |->
                           IF i = 1 THEN <<"7">> ELSE IF i = 2 THEN <<"1">> ELSE <<"a">>]))

\* how GET /api/download/{id} of such a server may end
EchoDownloadOutcomes(names) ==
    {[kind |-> "notok", text |-> <<>>], [kind |-> "ok", text |-> EchoArtifact(names)]}

\* the snapshots of a task that is completed at its first poll
CompletedPollOutcomes ==
    {[kind |-> "json", status |-> "completed", message |-> "", tables |-> t] :
        t \in Inventories({"completed_relevant"})}

\* what the user may leave in the input of the rename editor opened on old
RenameInputs(old) ==
    {<<" ">>, old, toLowerCase(old), <<" ", "x">>, <<"1">>,
     ColumnName(2), toLowerCase(ColumnName(2)), toLowerCase(Table_No)}
Artifacts ==
    { <<>>,
      Line(USPTO_ID \o <<",">> \o Table_No \o <<",", "x">>),
      Line(USPTO_ID \o <<",">> \o Table_No \o <<",", "x">>)
        \o Line(<<"7", ",", "1", ",", "\"", "a", ",", "b", "\"">>)
        \o Line(<<"7", ",", "2">>) }

\* how GET /api/download/{id} may end
DownloadOutcomes ==
    {[kind |-> k, text |-> <<>>] : k \in {"reject", "notok"}}
    \cup {[kind |-> "ok", text |-> a] : a \in Artifacts}

\* the field values of the artifacts of a server that writes row sets: empty,
\* with a comma, one double quote, with a line break
FieldValues ==
    {<<>>, <<"x", ",", "y">>, <<"\"">>, <<"x", "\n", "y">>}

CsvHeader == <<<<"a">>, <<"b">>>>

\* row sets of up to MaxCsvRows records with one value per header field
Records == {<<u, v>> : u \in FieldValues, v \in FieldValues}
RowSets == UNION {[1..n -> Records] : n \in 0..MaxCsvRows}

\* standard CSV quoting: a field with a comma, a double quote or a line break
\* is wrapped in double quotes and its double quotes are doubled
RECURSIVE DoubleQuotes(_)
DoubleQuotes(v) ==
    IF v = <<>> THEN <<>>
    ELSE (IF Head(v) = "\"" THEN <<"\"", "\"">> ELSE <<Head(v)>>) \o DoubleQuotes(Tail(v))

QuoteField(v) ==
    IF \E i \in 1..Len(v) : v[i] \in {",", "\"", "\n", "\r"}
    THEN <<"\"">> \o DoubleQuotes(v) \o <<"\"">>
    ELSE v

SerializeRecord(fields) ==
    Line(JoinFields([j \in 1..Len(fields) |-> QuoteField(fields[j])]))

RECURSIVE SerializeRecords(_)
SerializeRecords(rows) ==
    IF rows = <<>> THEN <<>>
    ELSE SerializeRecord(Head(rows)) \o SerializeRecords(Tail(rows))

Serialize(header, rows) == SerializeRecord(header) \o SerializeRecords(rows)

\* the rows parseCSV is to return for a row set: objects with the header's keys
RowObjects(header, rows) ==
    [k \in 1..Len(rows) |-> [j \in 1..Len(header) |-> <<header[j], rows[k][j]>>]]

\* a,b / "x,y",2
CsvQuotedComma ==
    <<"a", ",", "b", "\n", "\"", "x", ",", "y", "\"", ",", "2", "\n">>

\* a,b / x , "y" with blanks around both fields
CsvPadded ==
    <<"a", ",", "b", "\n", " ", "x", " ", ",", " ", "\"", "y", "\"", " ",
      "\n">>

\* a / "s ""hi"""
CsvDoubledQuote ==
    <<"a", "\n", "\"", "s", " ", "\"", "\"", "h", "i", "\"", "\"", "\"",
      "\n">>

\* a,b / "",2 : an empty field written in quotes
CsvEmptyQuoted ==
    <<"a", ",", "b", "\n", "\"", "\"", ",", "2", "\n">>

\* a,b / 1 / 1,2,3 : a record shorter and a record longer than the header
CsvRagged ==
    <<"a", ",", "b", "\n", "1", "\n", "1", ",", "2", ",", "3", "\n">>

\* a,b / 1,2 / (empty line) / (blank line) / 3,4
CsvBlankLines ==
    <<"a", ",", "b", "\n", "1", ",", "2", "\n", "\n", " ", "\t", "\n",
      "3", ",", "4", "\n">>

\* other bodies: empty, blank, the lines ended by CR LF, a header that repeats
\* a name
CsvSamples ==
    { <<>>,
      <<" ", "\n">>,
      <<"a", ",", "b", "\r", "\n", "1", ",", "2", "\r", "\n">>,
      <<"a", ",", "a", "\n", "1", ",", "2", "\n">>,
      CsvQuotedComma, CsvPadded, CsvDoubledQuote, CsvEmptyQuoted, CsvRagged,
      CsvBlankLines }

----------------------------------------------------------------------------
(* The page's state *)

VARIABLES
    columns,               \* let columns
    nextColumnNumber,      \* let nextColumnNumber
    pollInterval,          \* let pollInterval: a timer id, 0 for null
    currentTaskId,         \* let currentTaskId: a task id, 0 for null
    extractionData,        \* let extractionData
    tableProgressData,     \* let tableProgressData
    dotAnimationInterval,  \* let dotAnimationInterval: a timer id, 0 for null
    dotState,              \* let dotState of the animation closure
    timers,                \* the intervals the window keeps running
    nextTimerId,           \* the id the next setInterval returns
    statusText,            \* statusEl.textContent
    tableBody,             \* the rows of #table-body
    disabled,              \* searchButton.disabled
    submits,               \* POST /api/extract requests awaiting their response
    polls,                 \* per task id, GET /api/progress requests in flight
    downloads,             \* per task id, GET /api/download requests in flight
    nextTaskId,            \* the id the server gives the next task
    pollsIssued,           \* history: poll requests issued so far
    passes,                \* history: handleSearch runs that passed validation
    lastEvent,             \* history: what the last step of the page was
    lastTask,              \* history: the task id that step was about, or 0
    lastText,              \* history: the body of the last download response
    lastMsg,               \* history: the detail / message text of the last response
    lastTables,            \* history: the inventory of the last response processed
    terminalSeen,          \* history: tasks with a terminal snapshot processed
    editing,               \* the open rename editor: <<oldName>>, or <<>> for none
    requested,             \* server: per task id, the column names it was asked for
    edits,                 \* history of the schema edits
    served,                \* server: the rows behind the last artifact it sent
    fetches                \* history: per task id, result fetches issued so far

page == <<columns, nextColumnNumber, pollInterval, currentTaskId, extractionData,
          tableProgressData, dotAnimationInterval, dotState, timers, nextTimerId,
          statusText, tableBody, disabled, submits, polls, downloads>>

history == <<nextTaskId, pollsIssued, passes, lastEvent, lastTask, lastText,
             lastMsg, lastTables, terminalSeen>>

vars == <<page, history, editing, requested, edits, served, fetches>>

\* the page's state as one value, for the handlers below
S ==
    [columns |-> columns, nextColumnNumber |-> nextColumnNumber,
     pollInterval |-> pollInterval, currentTaskId |-> currentTaskId,
     extractionData |-> extractionData, tableProgressData |-> tableProgressData,
     dotAnimationInterval |-> dotAnimationInterval, dotState |-> dotState,
     timers |-> timers, nextTimerId |-> nextTimerId, statusText |-> statusText,
     tableBody |-> tableBody, disabled |-> disabled, submits |-> submits,
     polls |-> polls, downloads |-> downloads]

\* the page's next state is s
Becomes(s) ==
    /\ columns' = s.columns
    /\ nextColumnNumber' = s.nextColumnNumber
    /\ pollInterval' = s.pollInterval
    /\ currentTaskId' = s.currentTaskId
    /\ extractionData' = s.extractionData
    /\ tableProgressData' = s.tableProgressData
    /\ dotAnimationInterval' = s.dotAnimationInterval
    /\ dotState' = s.dotState
    /\ timers' = s.timers
    /\ nextTimerId' = s.nextTimerId
    /\ statusText' = s.statusText
    /\ tableBody' = s.tableBody
    /\ disabled' = s.disabled
    /\ submits' = s.submits
    /\ polls' = s.polls
    /\ downloads' = s.downloads

----------------------------------------------------------------------------
(* Timers *)

stopDotAnimation(s) ==
    IF s.dotAnimationInterval # 0
    THEN [s EXCEPT !.timers = {t \in @ : t.id # s.dotAnimationInterval},
                   !.dotAnimationInterval = 0]
    ELSE s

\* setInterval of the animation; the timer is tagged with the task whose
\* startPolling created it
startDotAnimation(s) ==
    LET s1 == stopDotAnimation(s)
    IN  [s1 EXCEPT !.dotState = 0,
                   !.dotAnimationInterval = s1.nextTimerId,
                   !.timers = @ \cup {[id |-> s1.nextTimerId, kind |-> "dot",
                                       task |-> s1.currentTaskId]},
                   !.nextTimerId = @ + 1]

\* document.querySelectorAll('.status-badge.loading') is not empty
HasLoadingBadge(body) ==
    \E r \in 1..Len(body) : \E j \in 1..Len(body[r].cells) :
        body[r].cells[j].badge = "loading"

\* one tick of the animation interval
dotAnimationTick(s) ==
    LET d == (s.dotState + 1) % 3
        s1 == [s EXCEPT !.dotState = d]
    IN  IF ~HasLoadingBadge(s.tableBody)
        THEN stopDotAnimation(s1)
        ELSE [s1 EXCEPT !.tableBody =
                 [r \in 1..Len(s.tableBody) |->
                     [s.tableBody[r] EXCEPT !.cells =
                         [j \in 1..Len(s.tableBody[r].cells) |->
                             IF s.tableBody[r].cells[j].badge = "loading"
                             THEN [s.tableBody[r].cells[j] EXCEPT
                                      !.text = LoadingText(d + 1)]
                             ELSE s.tableBody[r].cells[j]]]]]

\* stopPolling that forgets stopDotAnimation
stopPollingKeepsAnimation(s) ==
    IF s.pollInterval # 0
    THEN [s EXCEPT !.timers = {t \in @ : t.id # s.pollInterval},
                   !.pollInterval = 0]
    ELSE s

stopPolling(s) ==
    stopDotAnimation(
        IF s.pollInterval # 0
        THEN [s EXCEPT !.timers = {t \in @ : t.id # s.pollInterval},
                       !.pollInterval = 0]
        ELSE s)

----------------------------------------------------------------------------
(* Result fetch *)

\* downloadCSV up to its first await: the request goes out
downloadCSV(s, taskId) == [s EXCEPT !.downloads[taskId] = @ + 1]

\* existingTypes.get(name) || 'TEXT' : the Map keeps the last entry of a name
ExistingType(s, name) ==
    IF \E i \in 1..Len(s.columns) : s.columns[i].name = name
    THEN s.columns[CHOOSE i \in 1..Len(s.columns) :
                       /\ s.columns[i].name = name
                       /\ \A k \in (i + 1)..Len(s.columns) : s.columns[k].name # name].type
    ELSE TEXT

\* downloadCSV from the response on
downloadCSVResume(s, outcome) ==
    CASE outcome.kind = "reject" ->
            [s EXCEPT !.statusText = <<FailurePrefix, "Failed to download results">>]
      [] outcome.kind = "notok" -> s
      [] outcome.kind = "ok" ->
            LET parsedData == parseCSV(outcome.text)
                header == IF Len(parsedData) > 0 THEN ObjKeys(parsedData[1]) ELSE <<>>
                s1 == IF Len(parsedData) > 0
                      THEN [s EXCEPT !.columns =
                               [i \in 1..Len(header) |->
                                   [name |-> header[i], type |-> ExistingType(s, header[i])]]]
                      ELSE s
                s2 == renderBody([s1 EXCEPT !.extractionData = parsedData], parsedData)
            IN  [s2 EXCEPT !.statusText =
                    IF Len(parsedData) > 0
                    THEN <<SuccessPrefix, "Loaded ">> \o ToDecimal(Len(parsedData))
                         \o <<" rows from extraction.">>
                    ELSE <<SuccessPrefix,
                           "Extraction completed but no matching data found.">>]

----------------------------------------------------------------------------
(* Polling *)

updateProgressUI(s, progress) ==
    LET s1 == IF Len(progress.tables) > 0 /\ Len(s.tableProgressData) = 0
              THEN initializeProgressTable(
                       [s EXCEPT !.tableProgressData = progress.tables], progress.tables)
              ELSE IF Len(progress.tables) > 0
                   THEN updateProgressTable(s, progress.tables)
                   ELSE s
    IN  IF progress.status = "completed"
        THEN LET s2 == stopPolling(s1)
             IN  IF s2.currentTaskId # 0 THEN downloadCSV(s2, s2.currentTaskId) ELSE s2
        ELSE IF progress.status = "error"
             THEN stopPolling(
                      [s1 EXCEPT !.statusText =
                          <<FailurePrefix,
                            IF progress.message # "" THEN progress.message
                            ELSE "Extraction failed">>])
             ELSE s1

\* updateProgressUI ends in the exception of updateProgressTable, before it
\* looks at progress.status
updateProgressUIThrows(s, progress) ==
    /\ Len(progress.tables) > 0
    /\ Len(s.tableProgressData) > 0
    /\ updateProgressTableThrows(s, progress.tables)

\* pollProgress up to its first await: the request goes out
pollProgress(s, taskId) == [s EXCEPT !.polls[taskId] = @ + 1]

\* pollProgress whose catch gives up polling
pollProgressResumeStopsOnFailure(s, taskId, outcome) ==
    IF outcome.kind = "fail"
    THEN stopPolling(s)
    ELSE IF outcome.status = "not_found"
         THEN stopPolling(s)
         ELSE LET s1 == updateProgressUI(s, outcome)
              IN  IF outcome.status = "completed" \/ outcome.status = "error"
                  THEN stopPolling(s1)
                  ELSE s1

\* pollProgress without the not_found early return: not_found is shown as a failure
pollProgressResumeNotFoundAsError(s, taskId, outcome) ==
    IF outcome.kind = "fail"
    THEN s
    ELSE LET s1 == updateProgressUI(
                       s, IF outcome.status = "not_found"
                          THEN [outcome EXCEPT !.status = "error"] ELSE outcome)
         IN  IF outcome.status \in {"completed", "error", "not_found"}
             THEN stopPolling(s1)
             ELSE s1

\* pollProgress from the response on; a rejected fetch, a body that is not
\* JSON or an exception of updateProgressUI lands in the catch, which only logs
pollProgressResume(s, taskId, outcome) ==
    IF outcome.kind = "fail"
    THEN s
    ELSE IF outcome.status = "not_found"
         THEN stopPolling(s)
         ELSE IF updateProgressUIThrows(s, outcome)
              THEN updateProgressTableThrown(s, outcome.tables)
              ELSE LET s1 == updateProgressUI(s, outcome)
                   IN  IF outcome.status = "completed" \/ outcome.status = "error"
                       THEN stopPolling(s1)
                       ELSE s1

\* startPolling that leaves the first poll to the timer
startPollingWaitsForTick(s, taskId) ==
    LET s1 == renderBody([s EXCEPT !.currentTaskId = taskId,
                                   !.tableProgressData = <<>>], <<>>)
        s3 == [s1 EXCEPT !.pollInterval = s1.nextTimerId,
                         !.timers = @ \cup {[id |-> s1.nextTimerId, kind |-> "poll",
                                             task |-> taskId]},
                         !.nextTimerId = @ + 1]
    IN  startDotAnimation(s3)

startPolling(s, taskId) ==
    LET s1 == renderBody([s EXCEPT !.currentTaskId = taskId,
                                   !.tableProgressData = <<>>], <<>>)
        s2 == pollProgress(s1, taskId)
        s3 == [s2 EXCEPT !.pollInterval = s2.nextTimerId,
                         !.timers = @ \cup {[id |-> s2.nextTimerId, kind |-> "poll",
                                             task |-> taskId]},
                         !.nextTimerId = @ + 1]
    IN  startDotAnimation(s3)

----------------------------------------------------------------------------
(* Submission *)

\* handleSearch that forgets searchButton.disabled = true
handleSearchStaysEnabled(s, value) ==
    LET query == Trim(value)
    IN  IF query = <<>> \/ Len(s.columns) = 0
        THEN [s EXCEPT !.statusText =
                 <<FailurePrefix,
                   "Please provide a search query and at least one column.">>]
        ELSE [stopPolling(s) EXCEPT
                 !.currentTaskId = 0,
                 !.extractionData = <<>>,
                 !.tableProgressData = <<>>,
                 !.statusText = <<>>,
                 !.tableBody = <<>>,
                 !.submits = Append(@, [query |-> query,
                                        columns |-> columnNames(s),
                                        types |-> [i \in 1..Len(s.columns) |->
                                                      s.columns[i].type]])]

\* handleSearch that resets the previous cycle before it validates
handleSearchResetsFirst(s, value) ==
    LET query == Trim(value)
        s1 == [stopPolling(s) EXCEPT !.currentTaskId = 0,
                                     !.extractionData = <<>>,
                                     !.tableProgressData = <<>>]
    IN  IF query = <<>> \/ Len(s.columns) = 0
        THEN [s1 EXCEPT !.statusText =
                 <<FailurePrefix,
                   "Please provide a search query and at least one column.">>]
        ELSE [s1 EXCEPT
                 !.disabled = TRUE,
                 !.statusText = <<>>,
                 !.tableBody = <<>>,
                 !.submits = Append(@, [query |-> query,
                                        columns |-> columnNames(s),
                                        types |-> [i \in 1..Len(s.columns) |->
                                                      s.columns[i].type]])]

\* handleSearch up to its first await
handleSearch(s, value) ==
    LET query == Trim(value)
    IN  IF query = <<>> \/ Len(s.columns) = 0
        THEN [s EXCEPT !.statusText =
                 <<FailurePrefix,
                   "Please provide a search query and at least one column.">>]
        ELSE [stopPolling(s) EXCEPT
                 !.currentTaskId = 0,
                 !.extractionData = <<>>,
                 !.tableProgressData = <<>>,
                 !.disabled = TRUE,
                 !.statusText = <<>>,
                 !.tableBody = <<>>,
                 !.submits = Append(@, [query |-> query,
                                        columns |-> columnNames(s),
                                        types |-> [i \in 1..Len(s.columns) |->
                                                      s.columns[i].type]])]

\* handleSearch whose non-OK branch forgets searchButton.disabled = false
handleSearchResumeKeepsDisabled(s, outcome, taskId) ==
    CASE outcome.kind \in {"reject", "notok_badjson", "ok_badjson"} ->
            renderBody([s EXCEPT !.statusText = <<FailurePrefix, "Failed to reach backend">>,
                                 !.disabled = FALSE], <<>>)
      [] outcome.kind = "notok" ->
            renderBody([s EXCEPT !.statusText =
                                    <<FailurePrefix,
                                      IF outcome.detail # "" THEN outcome.detail
                                      ELSE "Unknown error">>], <<>>)
      [] outcome.kind = "ok" ->
            IF Len(outcome.tables) > 0
            THEN LET s1 == initializeProgressTable(
                               [s EXCEPT !.tableProgressData = outcome.tables],
                               outcome.tables)
                 IN  IF outcome.status # "completed" /\ taskId # 0
                     THEN startPolling(s1, taskId)
                     ELSE [s1 EXCEPT !.statusText = Shown(outcome.message),
                                     !.disabled = FALSE]
            ELSE renderBody([s EXCEPT !.statusText =
                                         <<IF outcome.message # "" THEN outcome.message
                                           ELSE "No relevant tables found.">>,
                                      !.disabled = FALSE], <<>>)

\* handleSearch from the response on; taskId is result.task_id (0: none).
\* The two awaits (fetch, response.json) are one step: nothing is written
\* between them.
handleSearchResume(s, outcome, taskId) ==
    CASE outcome.kind \in {"reject", "notok_badjson", "ok_badjson"} ->
            renderBody([s EXCEPT !.statusText = <<FailurePrefix, "Failed to reach backend">>,
                                 !.disabled = FALSE], <<>>)
      [] outcome.kind = "notok" ->
            renderBody([s EXCEPT !.statusText =
                                    <<FailurePrefix,
                                      IF outcome.detail # "" THEN outcome.detail
                                      ELSE "Unknown error">>,
                                 !.disabled = FALSE], <<>>)
      [] outcome.kind = "ok" ->
            IF Len(outcome.tables) > 0
            THEN LET s1 == initializeProgressTable(
                               [s EXCEPT !.tableProgressData = outcome.tables],
                               outcome.tables)
                 IN  IF outcome.status # "completed" /\ taskId # 0
                     THEN startPolling(s1, taskId)
                     ELSE [s1 EXCEPT !.statusText = Shown(outcome.message),
                                     !.disabled = FALSE]
            ELSE renderBody([s EXCEPT !.statusText =
                                         <<IF outcome.message # "" THEN outcome.message
                                           ELSE "No relevant tables found.">>,
                                      !.disabled = FALSE], <<>>)

----------------------------------------------------------------------------
(* Schema edits *)

\* the do-while of the '+' button: the first i from nextColumnNumber on whose
\* name no column has
RECURSIVE ProbeColumnNumber(_, _)
ProbeColumnNumber(s, i) ==
    IF \E c \in 1..Len(s.columns) : s.columns[c].name = ColumnName(i)
    THEN ProbeColumnNumber(s, i + 1)
    ELSE i

\* the '+' button without the counter: the probe starts from 1 every time
addColumnProbesFromOne(s) ==
    LET i == ProbeColumnNumber(s, 1)
    IN  render([s EXCEPT !.nextColumnNumber = i + 1,
                         !.columns = Append(@, [name |-> ColumnName(i), type |-> TEXT])])

addColumn(s) ==
    LET i == ProbeColumnNumber(s, s.nextColumnNumber)
    IN  render([s EXCEPT !.nextColumnNumber = i + 1,
                         !.columns = Append(@, [name |-> ColumnName(i), type |-> TEXT])])

\* name === 'USPTO_ID' || name === 'Table_No'
isFixedColumn(name) == name = USPTO_ID \/ name = Table_No

\* columns.find(c => c.name === name) : its index, 0 for undefined
FindColumn(s, name) ==
    IF \E i \in 1..Len(s.columns) : s.columns[i].name = name
    THEN CHOOSE i \in 1..Len(s.columns) :
             /\ s.columns[i].name = name
             /\ \A k \in 1..(i - 1) : s.columns[k].name # name
    ELSE 0

\* finishEditing of the editor opened on oldName, with value in its input;
\* the alert of the rejected case changes nothing on the page
finishEditing(s, oldName, value) ==
    LET newName == Trim(value)
        oldCol == FindColumn(s, oldName)
        taken == \E i \in 1..Len(s.columns) :
                     toLowerCase(s.columns[i].name) = toLowerCase(newName)
    IN  render(IF newName # <<>> /\ newName # oldName /\ oldCol # 0 /\ ~taken
               THEN [s EXCEPT !.columns[oldCol].name = newName]
               ELSE s)

\* the change listener of the type select in the header of name
retype(s, name, value) ==
    LET col == FindColumn(s, name)
    IN  IF col # 0 THEN [s EXCEPT !.columns[col].type = value] ELSE s

----------------------------------------------------------------------------
(* init() *)

\* the page after DOMContentLoaded: the two fixed columns, ten placeholder
\* rows, nothing in flight
InitialPage ==
    render([columns |-> <<[name |-> USPTO_ID, type |-> TEXT],
                          [name |-> Table_No, type |-> TEXT]>>,
            nextColumnNumber |-> 1,
            pollInterval |-> 0, currentTaskId |-> 0,
            extractionData |-> <<>>, tableProgressData |-> <<>>,
            dotAnimationInterval |-> 0, dotState |-> 0,
            timers |-> {}, nextTimerId |-> 1,
            statusText |-> <<>>, tableBody |-> <<>>, disabled |-> FALSE,
            submits |-> <<>>,
            polls |-> [t \in TaskIds |-> 0], downloads |-> [t \in TaskIds |-> 0]])

Init ==
    /\ columns = InitialPage.columns
    /\ nextColumnNumber = InitialPage.nextColumnNumber
    /\ pollInterval = InitialPage.pollInterval
    /\ currentTaskId = InitialPage.currentTaskId
    /\ extractionData = InitialPage.extractionData
    /\ tableProgressData = InitialPage.tableProgressData
    /\ dotAnimationInterval = InitialPage.dotAnimationInterval
    /\ dotState = InitialPage.dotState
    /\ timers = InitialPage.timers
    /\ nextTimerId = InitialPage.nextTimerId
    /\ statusText = InitialPage.statusText
    /\ tableBody = InitialPage.tableBody
    /\ disabled = InitialPage.disabled
    /\ submits = InitialPage.submits
    /\ polls = InitialPage.polls
    /\ downloads = InitialPage.downloads
    /\ nextTaskId = 1
    /\ pollsIssued = 0
    /\ passes = 0
    /\ lastEvent = "init"
    /\ lastTask = 0
    /\ lastText = <<>>
    /\ lastMsg = ""
    /\ lastTables = <<>>
    /\ terminalSeen = {}
    /\ editing = <<>>
    /\ requested = [t \in TaskIds |-> <<>>]
    /\ edits = [typed |-> <<>>, finished |-> 0, committed |-> FALSE, retyped |-> 0,
                usedNumbers |-> {}, addedNames |-> <<>>]
    /\ served = <<>>
    /\ fetches = [t \in TaskIds |-> 0]

----------------------------------------------------------------------------
(* The steps of the event loop *)

\* handleSearch run by a user event with the search box holding value; the
\* event reaches the page only after an open rename editor has lost the focus
UserSearch(value) ==
    LET invalid == Trim(value) = <<>> \/ Len(columns) = 0
    IN  /\ passes < MaxSubmits
        /\ editing = <<>>
        /\ Becomes(handleSearch(S, value))
        /\ passes' = IF invalid THEN passes ELSE passes + 1
        /\ lastEvent' = IF invalid THEN "validation_error" ELSE "submitted"
        /\ lastTask' = 0
        /\ UNCHANGED <<nextTaskId, pollsIssued, lastText, lastMsg, lastTables,
                       terminalSeen, editing, requested, edits, served, fetches>>

\* searchButton's click listener; a disabled button dispatches no click
ClickSearch ==
    /\ ~disabled
    /\ \E value \in Queries : UserSearch(value)

\* searchBox's keypress listener
EnterKey ==
    /\ ~disabled
    /\ \E value \in Queries : UserSearch(value)

\* the response of POST /api/extract is outcome (or the fetch rejects); the
\* server remembers the columns a task was asked for
SubmitStep(outcome) ==
    /\ submits # <<>>
    /\ LET taskId == IF outcome.kind = "ok" /\ outcome.hasId THEN nextTaskId ELSE 0
           s1 == handleSearchResume([S EXCEPT !.submits = Tail(@)], outcome, taskId)
       IN  /\ Becomes(s1)
           /\ nextTaskId' = IF taskId # 0 THEN nextTaskId + 1 ELSE nextTaskId
           /\ requested' = IF taskId # 0
                           THEN [requested EXCEPT ![taskId] = Head(submits).columns]
                           ELSE requested
           /\ pollsIssued' = IF taskId # 0
                             THEN pollsIssued + (s1.polls[taskId] - polls[taskId])
                             ELSE pollsIssued
           /\ lastEvent' = IF outcome.kind # "ok" THEN "submit_failed"
                           ELSE IF s1.pollInterval # 0 THEN "polling_started"
                           ELSE "submit_done"
           /\ lastTask' = taskId
           /\ lastMsg' = IF outcome.kind = "notok" THEN outcome.detail
                         ELSE outcome.message
           /\ lastTables' = outcome.tables
           /\ UNCHANGED <<passes, lastText, terminalSeen, editing, edits, served,
                          fetches>>

SubmitResolve == \E outcome \in SubmitOutcomes : SubmitStep(outcome)

\* the poll interval fires, while fewer than bound polls have been issued
PollTickUpTo(bound) ==
    \E t \in timers :
        /\ t.kind = "poll"
        /\ pollsIssued < bound
        /\ Becomes(pollProgress(S, t.task))
        /\ pollsIssued' = pollsIssued + 1
        /\ lastEvent' = "poll_issued"
        /\ lastTask' = t.task
        /\ UNCHANGED <<nextTaskId, passes, lastText, lastMsg, lastTables,
                       terminalSeen, editing, requested, edits, served, fetches>>

PollTick == PollTickUpTo(MaxPolls)

\* the response of one GET /api/progress/{taskId} is outcome (or the fetch rejects)
PollStep(taskId, outcome) ==
    /\ polls[taskId] > 0
    /\ Becomes(pollProgressResume([S EXCEPT !.polls[taskId] = @ - 1], taskId, outcome))
    /\ lastEvent' = IF outcome.kind = "fail" THEN "poll_failed"
                    ELSE CASE outcome.status = "not_found" -> "snapshot_not_found"
                           [] outcome.status = "completed" -> "snapshot_completed"
                           [] outcome.status = "error" -> "snapshot_error"
                           [] OTHER -> "snapshot_running"
    /\ lastTask' = taskId
    /\ terminalSeen' = IF outcome.kind = "json"
                          /\ outcome.status \in {"not_found", "completed", "error"}
                          /\ (outcome.status = "not_found"
                              \/ ~updateProgressUIThrows(S, outcome))
                       THEN terminalSeen \cup {taskId}
                       ELSE terminalSeen
    /\ lastMsg' = outcome.message
    /\ lastTables' = IF outcome.kind = "json" /\ outcome.status # "not_found"
                     THEN outcome.tables ELSE <<>>
    /\ fetches' = [t \in TaskIds |-> fetches[t] + (downloads'[t] - downloads[t])]
    /\ UNCHANGED <<nextTaskId, pollsIssued, passes, lastText, editing, requested, edits,
                   served>>

PollResolve ==
    \E taskId \in TaskIds : \E outcome \in PollOutcomes : PollStep(taskId, outcome)

\* the animation interval fires
DotTick ==
    \E t \in timers :
        /\ t.kind = "dot"
        /\ Becomes(dotAnimationTick(S))
        /\ lastEvent' = "dot_tick"
        /\ lastTask' = 0
        /\ UNCHANGED <<nextTaskId, pollsIssued, passes, lastText, lastMsg, lastTables,
                       terminalSeen, editing, requested, edits, served, fetches>>

\* the response of one GET /api/download/{taskId} is outcome (or the fetch
\* rejects).  renderHeaders replaces the header row, and with it the input of
\* an open rename editor: its blur listener may still run afterwards, or never.
\* The body the server sent was written from rows (none when it is not a
\* serialization of a row set).
DownloadStepServing(taskId, outcome, rows) ==
    /\ downloads[taskId] > 0
    /\ Becomes(downloadCSVResume([S EXCEPT !.downloads[taskId] = @ - 1], outcome))
    /\ lastEvent' = CASE outcome.kind = "ok" -> "download_ok"
                      [] outcome.kind = "notok" -> "download_notok"
                      [] OTHER -> "download_failed"
    /\ lastTask' = taskId
    /\ lastText' = outcome.text
    /\ editing' \in IF outcome.kind = "ok" THEN {editing, <<>>} ELSE {editing}
    /\ served' = rows
    /\ UNCHANGED <<nextTaskId, pollsIssued, passes, lastMsg, lastTables,
                   terminalSeen, requested, edits, fetches>>

DownloadStep(taskId, outcome) == DownloadStepServing(taskId, outcome, <<>>)

DownloadResolve ==
    \E taskId \in TaskIds : \E outcome \in DownloadOutcomes : DownloadStep(taskId, outcome)

\* a click on the '+' button of the header row, while the counter is at most bound
AddColumnUpTo(bound) ==
    /\ nextColumnNumber <= bound
    /\ editing = <<>>
    /\ Becomes(addColumn(S))
    /\ lastEvent' = "column_added"
    /\ lastTask' = 0
    /\ edits' = [edits EXCEPT
                    !.usedNumbers = @ \cup (nextColumnNumber..(nextColumnNumber' - 1)),
                    !.addedNames = Append(@, columns'[Len(columns')].name)]
    /\ UNCHANGED <<nextTaskId, pollsIssued, passes, lastText, lastMsg, lastTables,
                   terminalSeen, editing, requested, served, fetches>>

AddColumnClick == AddColumnUpTo(MaxAdded)

Next ==
    \/ ClickSearch
    \/ EnterKey
    \/ SubmitResolve
    \/ PollTick
    \/ PollResolve
    \/ DotTick
    \/ DownloadResolve
    \/ AddColumnClick

Spec == Init /\ [][Next]_vars

----------------------------------------------------------------------------
(* The page while one task runs, with every item status the server may send *)

ProgressSubmitResolve == \E outcome \in ProgressSubmitOutcomes : SubmitStep(outcome)

ProgressPollTick == PollTickUpTo(MaxSnapshots)

ProgressPollResolve ==
    \E taskId \in TaskIds : \E outcome \in ProgressPollOutcomes : PollStep(taskId, outcome)

NextProgress ==
    \/ ClickSearch
    \/ AddColumnClick
    \/ ProgressSubmitResolve
    \/ ProgressPollTick
    \/ ProgressPollResolve
    \/ DotTick

SpecProgress == Init /\ [][NextProgress]_vars

----------------------------------------------------------------------------
(* The page while the user edits the schema.  The server writes the        *)
(* requested column names into the artifact's header and answers the first *)
(* poll of a task with completed, before either interval has fired.        *)

\* a click on the name in the header of column i: handleRename puts the input
\* in place of the name.  Fixed columns have no click listener.
RenameClick ==
    \E i \in 1..Len(columns) :
        /\ edits.finished < MaxRenames
        /\ editing = <<>>
        /\ ~isFixedColumn(columns[i].name)
        /\ editing' = <<columns[i].name>>
        /\ lastEvent' = "rename_opened"
        /\ lastTask' = 0
        /\ UNCHANGED <<page, nextTaskId, pollsIssued, passes, lastText, lastMsg,
                       lastTables, terminalSeen, requested, edits, served,
                       fetches>>

\* blur or Enter in the rename editor, or Escape (which puts the old name back
\* into the input first)
FinishEditingFrom(values) ==
    /\ editing # <<>>
    /\ \E value \in values :
          LET s1 == finishEditing(S, editing[1], value)
          IN  /\ Becomes(s1)
              /\ edits' = [edits EXCEPT !.typed = value,
                                        !.finished = @ + 1,
                                        !.committed = @ \/ s1.columns # columns]
    /\ editing' = <<>>
    /\ lastEvent' = "rename_finished"
    /\ lastTask' = 0
    /\ UNCHANGED <<nextTaskId, pollsIssued, passes, lastText, lastMsg, lastTables,
                   terminalSeen, requested, served, fetches>>

FinishEditing == editing # <<>> /\ FinishEditingFrom(RenameInputs(editing[1]))

\* the user picks the other type in the select of column i; fixed columns
\* have no select
RetypeChange ==
    \E i \in 1..Len(columns) : \E value \in {TEXT, NUMERIC} :
        /\ edits.retyped < MaxRetypes
        /\ editing = <<>>
        /\ ~isFixedColumn(columns[i].name)
        /\ value # columns[i].type
        /\ Becomes(retype(S, columns[i].name, value))
        /\ edits' = [edits EXCEPT !.retyped = @ + 1]
        /\ lastEvent' = "retyped"
        /\ lastTask' = 0
        /\ UNCHANGED <<nextTaskId, pollsIssued, passes, lastText, lastMsg, lastTables,
                       terminalSeen, editing, requested, served, fetches>>

SchemaAddColumnClick == AddColumnUpTo(MaxSchemaAdds)

SchemaPollResolve ==
    \E taskId \in TaskIds : \E outcome \in CompletedPollOutcomes : PollStep(taskId, outcome)

SchemaDownloadResolve ==
    \E taskId \in TaskIds : \E outcome \in EchoDownloadOutcomes(requested[taskId]) :
        DownloadStep(taskId, outcome)

NextSchema ==
    \/ SchemaAddColumnClick
    \/ RenameClick
    \/ FinishEditing
    \/ RetypeChange
    \/ ClickSearch
    \/ ProgressSubmitResolve
    \/ SchemaPollResolve
    \/ SchemaDownloadResolve

SpecSchema == Init /\ [][NextSchema]_vars

----------------------------------------------------------------------------
(* The page with a server whose artifacts are serialized row sets *)

\* a result fetch answered with a serialized row set or with another body
CsvDownloadResolve ==
    \E taskId \in TaskIds :
        \/ \E rows \in RowSets :
              DownloadStepServing(taskId,
                                  [kind |-> "ok", text |-> Serialize(CsvHeader, rows)],
                                  <<rows>>)
        \/ \E text \in CsvSamples :
              DownloadStepServing(taskId, [kind |-> "ok", text |-> text], <<>>)

NextCSV ==
    \/ ClickSearch
    \/ ProgressSubmitResolve
    \/ SchemaPollResolve
    \/ CsvDownloadResolve

SpecCSV == Init /\ [][NextCSV]_vars

----------------------------------------------------------------------------
(* The page while a task is polled for as long as its timer lives *)

\* answers to a poll: a transport failure, a running task, a terminal status
TerminalStatuses == {"completed", "error", "not_found"}

LivePollOutcomes ==
    {[kind |-> "fail", status |-> "", message |-> "", tables |-> <<>>]}
    \cup {[kind |-> "json", status |-> st, message |-> "", tables |-> t] :
             st \in {"processing"} \cup TerminalStatuses,
             t \in Inventories(ItemStatuses)}

\* what the user may leave in the rename editor: a plain name, or a name
\* with a double quote
LiveRenameInputs == {<<"x">>, <<"\"">>}

LiveFinishEditing == FinishEditingFrom(LiveRenameInputs)

\* the poll interval fires whenever it is live; the model lets it fire while
\* fewer than MaxPolls polls of the task are in flight, and counts the polls
\* issued up to MaxPolls only
LivePollTick ==
    \E t \in timers :
        /\ t.kind = "poll"
        /\ polls[t.task] < MaxPolls
        /\ Becomes(pollProgress(S, t.task))
        /\ pollsIssued' = IF pollsIssued < MaxPolls THEN pollsIssued + 1 ELSE pollsIssued
        /\ lastEvent' = "poll_issued"
        /\ lastTask' = t.task
        /\ UNCHANGED <<nextTaskId, passes, lastText, lastMsg, lastTables,
                       terminalSeen, editing, requested, edits, served, fetches>>

LivePollResolve ==
    \E taskId \in TaskIds : \E outcome \in LivePollOutcomes : PollStep(taskId, outcome)

NextLive ==
    \/ AddColumnClick
    \/ RenameClick
    \/ LiveFinishEditing
    \/ ClickSearch
    \/ ProgressSubmitResolve
    \/ LivePollTick
    \/ LivePollResolve
    \/ DotTick
    \/ DownloadResolve

\* setInterval keeps firing while the interval is live, and every response
\* is delivered
SpecLive ==
    /\ Init
    /\ [][NextLive]_vars
    /\ WF_vars(LivePollTick)
    /\ WF_vars(LivePollResolve)

----------------------------------------------------------------------------
(* Derived notions *)

PollTimers == {t \in timers : t.kind = "poll"}
DotTimers == {t \in timers : t.kind = "dot"}

\* both timers are stopped
TimersCleared == timers = {} /\ pollInterval = 0 /\ dotAnimationInterval = 0

\* nothing is running or in flight: only a user event can be the next step
Quiescent ==
    /\ timers = {}
    /\ submits = <<>>
    /\ \A t \in TaskIds : polls[t] = 0 /\ downloads[t] = 0

\* the steps that end a submission attempt or a task in failure
FailureEnds ==
    {"validation_error", "submit_failed", "snapshot_error", "snapshot_not_found",
     "download_notok", "download_failed"}

ValidationMessage ==
    <<FailurePrefix, "Please provide a search query and at least one column.">>

\* the steps in which updateProgressUI has processed a snapshot
SnapshotEvents == {"snapshot_running", "snapshot_completed", "snapshot_error"}

\* the uids of the inventory
Uids == {KeyOrder[i] : i \in 1..Len(KeyOrder)}

\* item maps a and b hold the same items and differ in the status of uid only
DifferOnlyIn(a, b, uid) ==
    /\ Len(a) = Len(b)
    /\ \A i \in 1..Len(a) :
          /\ a[i].uid = b[i].uid
          /\ a[i].uid # uid => a[i] = b[i]
          /\ a[i].uid = uid =>
                a[i].status # b[i].status /\ [a[i] EXCEPT !.status = b[i].status] = b[i]

\* the badges of the row of uid in the table body
BadgesOf(body, uid) ==
    UNION {{body[r].cells[j].badge :
               j \in {k \in 1..Len(body[r].cells) : body[r].cells[k].tag # <<>>}} :
           r \in {q \in 1..Len(body) : body[q].id = uid}}

----------------------------------------------------------------------------
(* Supporting facts *)

\* Every poll in flight belongs to the current task: in the page as built no
\* response of a superseded task exists.
EveryPollIsCurrent ==
    \A t \in TaskIds : polls[t] > 0 => t = currentTaskId

\* From startPolling on the search button stays disabled: handleSearch runs
\* only while no task has been started since the last reset.
PollingKeepsButtonDisabled ==
    currentTaskId # 0 => disabled

----------------------------------------------------------------------------
(* Properties *)

C3_TimerLeak ==
    [][\A t \in terminalSeen :
          /\ polls'[t] <= polls[t]
          /\ polls'[t] < polls[t] =>
                /\ UNCHANGED <<tableBody, statusText, tableProgressData>>
                /\ downloads'[t] <= downloads[t]]_vars

C5_ValidationAbortsOnlyTheAttempt ==
    [][lastEvent' = "validation_error" =>
          /\ statusText' = ValidationMessage
          /\ UNCHANGED <<timers, pollInterval, dotAnimationInterval, currentTaskId,
                         tableProgressData, extractionData, tableBody, disabled,
                         submits, polls, downloads, columns>>]_vars

\* a validation failure with the item map and rows of an earlier cycle on the page
C5_Witness ==
    /\ lastEvent = "validation_error"
    /\ tableProgressData # <<>>
    /\ \E r \in 1..Len(tableBody) : tableBody[r].id # ""

\* C6: a poll whose fetch rejects or whose body is not JSON changes nothing:
\* poll timer, animation timer, task id, item map, table body and status
\* message stay, and the poll timer goes on issuing polls.
C6_PollTransportFailureIsNonFatal ==
    /\ [][lastEvent' = "poll_failed" =>
             UNCHANGED <<timers, pollInterval, dotAnimationInterval, dotState,
                         currentTaskId, tableProgressData, tableBody, statusText,
                         disabled, downloads>>]_vars
    /\ [](lastEvent = "poll_failed" /\ PollTimers # {} /\ pollsIssued < MaxPolls
             => ENABLED PollTick)

\* a poll failed while the task is polling with its rows on the page
C6_Witness ==
    /\ lastEvent = "poll_failed"
    /\ \E p \in PollTimers : p.task = lastTask /\ p.id = pollInterval
    /\ DotTimers # {}
    /\ \E r \in 1..Len(tableBody) : tableBody[r].id # ""

\* C7: after a failed submission (non-OK response, rejected fetch, unreadable
\* body) the status message is the failure prefix and the server's detail, or
\* a default text when there is none; the button is enabled, no poll is in
\* flight, no timer runs and currentTaskId is null.
C7_FailedSubmissionEndsTheAttempt ==
    lastEvent = "submit_failed" =>
        /\ Len(statusText) = 2
        /\ statusText[1] = FailurePrefix
        /\ statusText[2] # ""
        /\ lastMsg # "" => statusText[2] = lastMsg
        /\ ~disabled
        /\ TimersCleared
        /\ currentTaskId = 0
        /\ \A t \in TaskIds : polls[t] = 0

\* a non-OK response with a detail text has been shown
C7_Witness ==
    /\ lastEvent = "submit_failed"
    /\ lastMsg = "No patents loaded"
    /\ statusText = <<FailurePrefix, "No patents loaded">>

\* C8: a not_found snapshot stops both timers and leaves status message,
\* table body and item map as they were.
C8_NotFoundStopsSilently ==
    [][lastEvent' = "snapshot_not_found" =>
          /\ TimersCleared'
          /\ UNCHANGED <<statusText, tableBody, tableProgressData, extractionData,
                         columns, downloads, disabled, currentTaskId>>]_vars

\* the first terminal snapshot of a task with rows on the page was not_found
C8_Witness ==
    /\ lastEvent = "snapshot_not_found"
    /\ timers = {}
    /\ statusText = <<>>
    /\ \E r \in 1..Len(tableBody) : tableBody[r].id # ""
    /\ \A t \in TaskIds : downloads[t] = 0

\* C9, as claimed: a completed snapshot stops both timers and sends the result fetch for
\* the current task id; when a result fetch succeeds, the stored data is the
\* decoded artifact and the table body holds exactly one final row per decoded
\* row, each cell showing the row's value for its column, and no progress row.
C9_CompletedFetchesAndPaintsFinalRows ==
    /\ [][lastEvent' = "snapshot_completed" =>
             /\ TimersCleared'
             /\ currentTaskId # 0
             /\ currentTaskId' = currentTaskId
             /\ downloads' = [downloads EXCEPT ![currentTaskId] = @ + 1]]_vars
    /\ [](lastEvent = "download_ok" =>
             /\ extractionData = parseCSV(lastText)
             /\ Len(tableBody) = Len(parseCSV(lastText))
             /\ \A r \in 1..Len(tableBody) :
                   /\ tableBody[r].id = ""
                   /\ Len(tableBody[r].cells) = Len(columns) + 1
                   /\ \A j \in 1..Len(columns) :
                         /\ tableBody[r].cells[j].badge = ""
                         /\ tableBody[r].cells[j].text =
                               FieldOrEmpty(parseCSV(lastText)[r], columns[j].name))

\* C10, as claimed: after an error snapshot both timers are cleared, the status
\* message is the failure prefix and the server's message (a default text when
\* it is empty), and once nothing is in flight the page is idle with the
\* search button enabled, so that a new submission can be made.
C10_ErrorReturnsToIdle ==
    lastEvent = "snapshot_error" =>
        /\ TimersCleared
        /\ statusText = <<FailurePrefix,
                          IF lastMsg # "" THEN lastMsg ELSE "Extraction failed">>
        /\ Quiescent => ~disabled

\* C11: the step that enters polling issues one poll for the new task and
\* leaves the poll interval of that task running; every tick of the interval
\* issues one more poll for the task startPolling was called with, which is
\* the current task; and a tick can fire whenever the interval is live, also
\* while earlier polls are still in flight.
C11_PollOnEntryAndOnEveryTick ==
    /\ [][lastEvent' = "polling_started" =>
             /\ polls' = [polls EXCEPT ![lastTask'] = @ + 1]
             /\ currentTaskId' = lastTask'
             /\ \E t \in PollTimers' : t.task = lastTask' /\ t.id = pollInterval']_vars
    /\ [][lastEvent' = "poll_issued" =>
             \E t \in PollTimers :
                 /\ t.task = currentTaskId
                 /\ t.task = lastTask'
                 /\ polls' = [polls EXCEPT ![t.task] = @ + 1]]_vars
    /\ [](PollTimers # {} /\ pollsIssued < MaxPolls => ENABLED PollTick)

\* a tick has issued a poll while the poll issued on entry is still in flight
C11_Witness ==
    /\ lastEvent = "poll_issued"
    /\ polls[lastTask] = 2
    /\ PollTimers # {}

\* C12, as claimed: after a successful submission response that does not start
\* polling no timer runs, no poll is in flight and the button is enabled; and
\* right after one that starts polling the stored item map is the response's
\* inventory and the table body holds one loading row per item of it.
C12_SubmissionRouting ==
    /\ lastEvent = "submit_done" =>
          /\ TimersCleared
          /\ ~disabled
          /\ \A t \in TaskIds : polls[t] = 0
    /\ lastEvent = "polling_started" =>
          /\ lastTables # <<>>
          /\ tableProgressData = lastTables
          /\ Len(tableBody) = Len(lastTables)
          /\ \A i \in 1..Len(lastTables) :
                \E r \in 1..Len(tableBody) :
                    /\ tableBody[r].id = lastTables[i].uid
                    /\ \A j \in 1..Len(tableBody[r].cells) :
                          tableBody[r].cells[j].tag # <<>> =>
                              tableBody[r].cells[j].badge = "loading"

\* C16: a live animation interval has a live poll interval of the same task
\* beside it; a tick of the animation clears the interval when no loading
\* badge is on the page and keeps it otherwise, and sends no request; and a
\* step that stops the poll interval stops the animation with it.
C16_AnimationNeverOutlivesPolling ==
    /\ [](\A d \in DotTimers : \E p \in PollTimers : p.task = d.task)
    /\ [][lastEvent' = "dot_tick" =>
             /\ ~HasLoadingBadge(tableBody) =>
                    DotTimers' = {} /\ dotAnimationInterval' = 0
             /\ HasLoadingBadge(tableBody) => DotTimers' = DotTimers
             /\ UNCHANGED <<submits, polls, downloads, pollInterval>>]_vars
    /\ [][PollTimers # {} /\ PollTimers' = {} =>
             DotTimers' = {} /\ dotAnimationInterval' = 0]_vars

\* the animation has cleared itself on a tick while the task is still polling
C16_Witness ==
    /\ lastEvent = "dot_tick"
    /\ DotTimers = {}
    /\ PollTimers # {}
    /\ currentTaskId # 0

C14_SnapshotReplaceIsIdempotent ==
    /\ [](lastEvent \in SnapshotEvents /\ lastTables # <<>> =>
             tableProgressData = lastTables)
    /\ [][/\ lastEvent' \in SnapshotEvents
          /\ lastTables' # <<>>
          /\ lastTables' = tableProgressData
          => /\ tableBody' = tableBody
             /\ tableProgressData' = tableProgressData]_vars

\* C15, as claimed: when a snapshot is processed against a stored map, the cells without
\* a column tag (the identifier cells and the filler) of every row stay as
\* they are; and for each item whose status differs from the stored one and
\* whose row is on the page, every tagged cell of the row shows Match for
\* completed_relevant, Miss for completed_irrelevant and error, and is exactly
\* as before for any other status.
C15_BadgeVocabulary ==
    [][lastEvent' \in SnapshotEvents /\ tableProgressData # <<>> =>
          /\ Len(tableBody') = Len(tableBody)
          /\ \A r \in 1..Len(tableBody) :
                /\ tableBody'[r].id = tableBody[r].id
                /\ Len(tableBody'[r].cells) = Len(tableBody[r].cells)
                /\ \A j \in 1..Len(tableBody[r].cells) :
                      tableBody[r].cells[j].tag = <<>> =>
                          tableBody'[r].cells[j] = tableBody[r].cells[j]
          /\ \A i \in 1..Len(lastTables') : \A r \in 1..Len(tableBody) :
                /\ tableBody[r].id = lastTables'[i].uid
                /\ StoredStatus(S, lastTables'[i].uid) # lastTables'[i].status
                => \A j \in 1..Len(tableBody[r].cells) :
                      LET old == tableBody[r].cells[j]
                          new == tableBody'[r].cells[j]
                          status == lastTables'[i].status
                      IN  old.tag # <<>> =>
                            CASE status = "completed_relevant" ->
                                    new = [old EXCEPT !.cls = "status-cell",
                                                      !.badge = "match",
                                                      !.text = <<"Match">>]
                              [] status \in {"completed_irrelevant", "error"} ->
                                    new = [old EXCEPT !.cls = "status-cell",
                                                      !.badge = "miss",
                                                      !.text = <<"Miss">>]
                              [] OTHER -> new = old]_vars

\* C17, as claimed: no two columns have names that are equal when letter case
\* is ignored.
C17_NamesUniqueIgnoringCase ==
    \A i \in 1..Len(columns) : \A j \in 1..Len(columns) :
        i # j => toLowerCase(columns[i].name) # toLowerCase(columns[j].name)

\* C18, as claimed: the first two columns are USPTO_ID and Table_No, both of
\* type TEXT.
C18_FixedColumnsStayFirst ==
    /\ Len(columns) >= 2
    /\ columns[1] = [name |-> USPTO_ID, type |-> TEXT]
    /\ columns[2] = [name |-> Table_No, type |-> TEXT]

\* C19: a click on '+' appends one column of type TEXT named Column n, where n
\* is at least the counter, no column has that name, and n was neither used
\* nor skipped by an earlier click; the counter moves past n and never goes
\* down; and as long as no rename has been committed the names added so far
\* are Column 1, Column 2, ... in this order.
C19_AddColumn ==
    /\ [][lastEvent' = "column_added" =>
             LET n == nextColumnNumber' - 1
             IN  /\ n >= nextColumnNumber
                 /\ n \notin edits.usedNumbers
                 /\ \A i \in 1..Len(columns) : columns[i].name # ColumnName(n)
                 /\ columns' = Append(columns, [name |-> ColumnName(n), type |-> TEXT])]_vars
    /\ [][nextColumnNumber' >= nextColumnNumber]_vars
    /\ [](~edits.committed =>
             edits.addedNames = [i \in 1..Len(edits.addedNames) |-> ColumnName(i)])

\* Column 1 was renamed to Column 2, and the next click skipped the number 2:
\* the columns added are Column 1 and Column 3
C19_Witness ==
    /\ lastEvent = "column_added"
    /\ edits.committed
    /\ edits.addedNames = <<ColumnName(1), ColumnName(3)>>
    /\ nextColumnNumber = 4
    /\ \E i \in 1..Len(columns) : columns[i].name = ColumnName(2)

\* C20, as claimed: when the rename editor of a column named old is closed
\* with the (trimmed) text new, the column list is unchanged if new is empty,
\* equals old, or is equal, letter case ignored, to the name of another
\* column; otherwise the column takes the name new, also when new differs from
\* old in letter case only, and nothing else in the list changes.
C20_Rename ==
    [][lastEvent' = "rename_finished" /\ editing # <<>> =>
          LET old == editing[1]
              new == Trim(edits'.typed)
              own == FindColumn(S, old)
              clash == \E i \in 1..Len(columns) :
                           /\ i # own
                           /\ toLowerCase(columns[i].name) = toLowerCase(new)
          IN  own # 0 =>
                  columns' = IF new = <<>> \/ new = old \/ clash
                             THEN columns
                             ELSE [columns EXCEPT ![own].name = new]]_vars

----------------------------------------------------------------------------
(* Header reconciliation *)

\* the field names of the header record of an artifact that has one
HasHeaderRecord(text) == Trim(text) # <<>>
HeaderNames(text) == parseCSVLine(Split(Trim(text), "\n")[1])

\* C21, as claimed: a result fetch that reconciles the header leaves as the
\* column list exactly the artifact's header names in header order, each with
\* the type the column of that name had before, TEXT when there was none.
C21_ReconciliationFollowsTheHeader ==
    [][lastEvent' = "download_ok" /\ Len(extractionData') > 0 =>
          LET header == HeaderNames(lastText')
          IN  columns' = [i \in 1..Len(header) |->
                             [name |-> header[i], type |-> ExistingType(S, header[i])]]]_vars

\* C22, as claimed: after a successfully fetched artifact that has a header
\* record, with or without data records, the column names are the artifact's
\* header names.
C22_ReconciliationIsUnconditional ==
    lastEvent = "download_ok" /\ HasHeaderRecord(lastText) =>
        columnNames(S) = HeaderNames(lastText)

----------------------------------------------------------------------------
(* The task handle and the result fetch *)

\* C27, as claimed: the task handle is live only until a terminal snapshot of
\* its task has been processed: no task whose completed, error or not_found
\* snapshot the page has processed is the current one.
C27_HandleEndsAtTerminalSnapshot ==
    currentTaskId # 0 => currentTaskId \notin terminalSeen

\* C29, as claimed: for one task id the result artifact is requested at most
\* once.
C29_OneFetchPerTask ==
    \A t \in TaskIds : fetches[t] <= 1

\* C30, as claimed: while a task is polling and a snapshot has been processed,
\* every tagged cell of the row of an item shows Match when the stored status
\* of the item is completed_relevant and Miss when it is completed_irrelevant
\* or error.
C30_BadgesAgreeWithStoredStatus ==
    pollInterval # 0 /\ lastEvent = "snapshot_running" =>
        \A uid \in Uids :
            /\ StoredStatus(S, uid) = "completed_relevant" =>
                  BadgesOf(tableBody, uid) \subseteq {"match"}
            /\ StoredStatus(S, uid) \in {"completed_irrelevant", "error"} =>
                  BadgesOf(tableBody, uid) \subseteq {"miss"}

----------------------------------------------------------------------------
(* The CSV decoder *)

\* the non-blank lines after the header line of an artifact that has one
DataRecords(text) ==
    SelectSeq(Tail(Split(Trim(text), "\n")), LAMBDA l : Trim(l) # <<>>)

\* no field of the row set holds a line break
NoLineBreaks(rows) ==
    \A k \in 1..Len(rows) : \A j \in 1..Len(rows[k]) : \A i \in 1..Len(rows[k][j]) :
        rows[k][j][i] \notin {"\n", "\r"}

\* the page has just decoded the serialization of a row set
DecodedRowSet == lastEvent = "download_ok" /\ served # <<>>

\* C23, as claimed: decoding the serialization of a row set, whose fields may
\* hold commas, double quotes and line breaks, returns the rows of the set
\* with their field values.
C23_RoundTrip ==
    DecodedRowSet => extractionData = RowObjects(CsvHeader, served[1])

\* C24: records without a line break are decoded field by field: a row set
\* whose fields hold no line break comes back as served (commas inside quoted
\* fields kept, doubled quotes read as one quote, wrapping quotes removed);
\* the record "x,y",2 under the header a,b gives a = x,y and b = 2; the values
\* of fields written with blanks around them come back without the blanks.
C24_RecordDecoding ==
    /\ DecodedRowSet /\ NoLineBreaks(served[1]) =>
          extractionData = RowObjects(CsvHeader, served[1])
    /\ lastEvent = "download_ok" /\ lastText = CsvQuotedComma =>
          extractionData = <<<<<<<<"a">>, <<"x", ",", "y">>>>, <<<<"b">>, <<"2">>>>>>>>
    /\ lastEvent = "download_ok" /\ lastText = CsvPadded =>
          extractionData = <<<<<<<<"a">>, <<"x">>>>, <<<<"b">>, <<"y">>>>>>>>
    /\ lastEvent = "download_ok" /\ lastText = CsvDoubledQuote =>
          extractionData = <<<<<<<<"a">>, <<"s", " ", "\"", "h", "i", "\"">>>>>>>>

\* two served records, the first with a comma in one field and a double quote
\* as the other, have been decoded
C24_Witness ==
    /\ DecodedRowSet
    /\ NoLineBreaks(served[1])
    /\ Len(served[1]) = 2
    /\ served[1][1] = <<<<"x", ",", "y">>, <<"\"">>>>
    /\ Len(extractionData) = 2

\* C25: every decoded row has exactly the header's field names as its keys,
\* each once; the value under a name is the field of the record at the
\* (last) position of the name in the header, the empty string when the
\* record has no field there; fields beyond the header's length appear
\* nowhere.
C25_RowsHaveTheHeaderFields ==
    lastEvent = "download_ok" /\ HasHeaderRecord(lastText) =>
        LET header == HeaderNames(lastText)
            records == DataRecords(lastText)
        IN  \A k \in 1..Len(extractionData) :
                LET row == extractionData[k]
                    values == parseCSVLine(records[k])
                IN  /\ {row[n][1] : n \in 1..Len(row)} = {header[j] : j \in 1..Len(header)}
                    /\ Len(row) = Cardinality({header[j] : j \in 1..Len(header)})
                    /\ \A j \in 1..Len(header) :
                          (\A m \in (j + 1)..Len(header) : header[m] # header[j]) =>
                              ObjGet(row, header[j]) =
                                  IF j <= Len(values) THEN values[j] ELSE <<>>

\* a record with one field and a record with three fields have been decoded
\* under the header a,b
C25_Witness ==
    /\ lastEvent = "download_ok"
    /\ lastText = CsvRagged
    /\ Len(extractionData) = 2
    /\ ObjGet(extractionData[1], <<"b">>) = <<>>
    /\ ObjKeys(extractionData[2]) = <<<<"a">>, <<"b">>>>

\* C26: an empty or blank input decodes to no row; otherwise there is one row
\* per non-blank line after the header line, none for a blank line; a served
\* row set whose fields hold no line break gives as many rows as it has
\* records.
C26_BlankLinesGiveNoRow ==
    /\ lastEvent = "download_ok" =>
          Len(extractionData) = IF HasHeaderRecord(lastText)
                                THEN Len(DataRecords(lastText))
                                ELSE 0
    /\ DecodedRowSet /\ NoLineBreaks(served[1]) =>
          Len(extractionData) = Len(served[1])

\* an artifact with an empty and a blank line between its two records has
\* been decoded into two rows
C26_Witness ==
    /\ lastEvent = "download_ok"
    /\ lastText = CsvBlankLines
    /\ Len(DataRecords(lastText)) < Len(Tail(Split(Trim(lastText), "\n")))
    /\ Len(extractionData) = 2

\* the iterations of the scanner at a double quote, over the lines of text:
\* the line, the state before and the state after
QuoteScans(text) ==
    LET lines == Split(Trim(text), "\n")
    IN  UNION {LET trace == ScanStates(lines[n])
               IN  {[line |-> lines[n], st |-> trace[k], nx |-> trace[k + 1]] :
                       k \in {q \in 1..(Len(trace) - 1) : lines[n][trace[q].i] = "\""}} :
               n \in 1..Len(lines)}

\* the quote the scanner is at is followed by a second double quote
Doubled(scan) ==
    scan.st.i + 1 <= Len(scan.line) /\ scan.line[scan.st.i + 1] = "\""

\* both quotes consumed, one literal quote appended, the state unchanged
ConsumesPair(scan) ==
    scan.nx = [scan.st EXCEPT !.i = @ + 2, !.current = Append(@, "\"")]

\* the quote consumed alone, nothing appended, the state toggled
Toggles(scan) ==
    scan.nx = [scan.st EXCEPT !.i = @ + 1, !.inQuotes = ~@]

\* C28, as claimed: in both states a double quote followed by a second double
\* quote is consumed with it as one literal quote and the state stays; any
\* other double quote toggles the state.
C28_DoubledQuoteInBothStates ==
    lastEvent = "download_ok" =>
        \A scan \in QuoteScans(lastText) :
            IF Doubled(scan) THEN ConsumesPair(scan) ELSE Toggles(scan)

\* C28, amended: in the quoted state a double quote followed by a second
\* double quote is consumed with it as one literal quote and the state stays;
\* every other double quote, also one followed by a second quote in the
\* unquoted state, is consumed alone, appends nothing and toggles the state.
C28_DoubledQuoteInQuotedState ==
    lastEvent = "download_ok" =>
        \A scan \in QuoteScans(lastText) :
            IF scan.st.inQuotes /\ Doubled(scan) THEN ConsumesPair(scan) ELSE Toggles(scan)

\* the scanner has met, in the unquoted state, the opening quote of a served
\* field whose value is one double quote, and in the quoted state the doubled
\* quote that stands for the value
C28_Witness ==
    /\ DecodedRowSet
    /\ \E scan \in QuoteScans(lastText) :
          ~scan.st.inQuotes /\ Doubled(scan) /\ scan.nx.inQuotes
    /\ \E scan \in QuoteScans(lastText) :
          scan.st.inQuotes /\ Doubled(scan) /\ scan.nx.inQuotes

----------------------------------------------------------------------------
(* Schema edits and late responses while a task runs *)

\* the ids of the rows of the table body, in order; "" for a row without id
RowIds(body) == [r \in 1..Len(body) |-> body[r].id]

\* the table body shows progress rows
HasProgressRows(body) == \E r \in 1..Len(body) : body[r].id # ""

\* the steps that end in render(): a click on '+', and the end of a rename
SchemaEditEvents == {"column_added", "rename_finished"}

\* C31, as claimed: a schema edit made while a task is polling and progress
\* rows are on the page keeps the row of every item: the rows after the edit
\* are the rows of the same items in the same order.
C31_SchemaEditKeepsProgressRows ==
    [][/\ lastEvent' \in SchemaEditEvents
       /\ pollInterval # 0
       /\ HasProgressRows(tableBody)
       => RowIds(tableBody') = RowIds(tableBody)]_vars

\* the steps in which a poll response has been processed
PollResponseEvents ==
    {"poll_failed", "snapshot_not_found", "snapshot_running", "snapshot_completed",
     "snapshot_error"}

\* C32, as claimed: while the final rows of the current task are on the page,
\* no poll response of that task changes the table body.
C32_FinalRowsSurviveLatePolls ==
    [][/\ lastEvent' \in PollResponseEvents
       /\ lastTask' = currentTaskId
       /\ extractionData # <<>>
       => tableBody' = tableBody]_vars

----------------------------------------------------------------------------
(* The search button *)

\* C34, as claimed: at most one submission request is in flight, and the
\* search button is disabled exactly while one is.
C34_DisabledExactlyWhileSubmitting ==
    /\ Len(submits) <= 1
    /\ disabled <=> submits # <<>>

----------------------------------------------------------------------------
(* Termination of polling *)

\* the steps in which a poll has ended without a terminal answer
NonTerminalAnswers == {"poll_failed", "snapshot_running"}

\* C33, as claimed: when the interval keeps firing, every response is
\* delivered and from some point on every poll is answered with a terminal
\* status, a live poll or animation timer leads to both timers being cleared,
\* whatever failed or running answers came before; and cleared timers stay
\* cleared until a submission starts polling again.
C33_PollingTerminates ==
    /\ <>[](lastEvent \notin NonTerminalAnswers) => ((timers # {}) ~> TimersCleared)
    /\ [][TimersCleared /\ ~TimersCleared' => lastEvent' = "polling_started"]_vars

====
